---- MODULE Spec2Model ----
(***************************************************************************)
(* A model of the batch data pipeline: CSVReader.read_data (header         *)
(* cleaning), DataTransformer (tolerant field parsers, transform_data),    *)
(* DataWriter (sink replace) and run_pipeline (the entry point).           *)
(*                                                                         *)
(* Text is modelled as a sequence of one-character strings, so that the    *)
(* string operations of the code (strip, lower, replace, split, re.sub)    *)
(* are computed character by character.                                    *)
(***************************************************************************)
EXTENDS Integers, Sequences, FiniteSets, TLC

VARIABLES
    \* CSVReader.read_data, the column-cleaning loop
    original_columns,   \* df.columns.tolist(): the raw headers
    new_columns,        \* the cleaned names emitted so far
    seen_columns,       \* the set of names emitted so far
    col_idx,            \* number of headers the for-loop has consumed
    \* DataTransformer._parse_currency_amount
    written,            \* how the amount text was written (its denotation)
    amount_arg,         \* the argument
    amount_out,         \* the returned float, or Unset before the call
    \* DataTransformer.transform_data
    data_df,            \* the frame read_data returned
    transformed_df,     \* what transform_data returned (a frame or a raise)
    \* DataWriter and the database
    table,              \* the target table: Absent or Table(rows)
    wpc,                \* position in write_data
    engine,             \* self.engine: "none" or "connected"
    if_exists,          \* the if_exists argument of the call
    w_df,               \* the frame passed to write_data
    conn_attempts,      \* connection attempts made within the call
    write_attempts,     \* to_sql attempts made within the call
    errors,             \* error lines logged within the call
    prior,              \* the table as it was when the call began
    observed,           \* what a concurrent reader last read during the call
    calls,              \* direct calls of write_data made so far
    \* run_pipeline
    source,             \* the source file
    pc,                 \* position in run_pipeline
    runs,               \* runs started so far
    output,             \* lines printed by the current run
    stages,             \* stages the current run has started
    failed_stage,       \* the stage whose failure ended the current run
    table_before,       \* the table as it was when the current run began
    first_sink,         \* the table after the first run that finished
    \* Config
    environ,            \* os.environ after load_dotenv(): the settings that are set
    connection_string,  \* what Config().DB_CONNECTION_STRING returned, or Unset
    \* DataTransformer._parse_address
    address_arg,        \* the argument
    address_out         \* the returned value, or Unset before the call

headerVars == <<original_columns, new_columns, seen_columns, col_idx>>
currencyVars == <<written, amount_arg, amount_out>>
transformVars == <<data_df, transformed_df>>
writerVars ==
    <<table, wpc, engine, if_exists, w_df, conn_attempts, write_attempts, errors,
      prior, observed, calls>>
pipelineVars ==
    <<source, pc, runs, output, stages, failed_stage, table_before, first_sink>>
configVars == <<environ, connection_string>>
addressVars == <<address_arg, address_out>>
vars ==
    <<headerVars, currencyVars, transformVars, writerVars, pipelineVars, configVars,
      addressVars>>

Unset == [t |-> "unset"]

(***************************************************************************)
(* Bounds of the model.                                                    *)
(***************************************************************************)
MaxHeaders == 4
MaxAmountLen == 4
MaxWhole == 1234
MaxFrameRows == 2
MaxRows == 2
MaxCalls == 2
MaxRuns == 2

(***************************************************************************)
(* Text helpers.                                                           *)
(***************************************************************************)
RECURSIVE StrOfLen(_, _)
StrOfLen(alphabet, n) ==
    IF n = 0 THEN {<<>>}
    ELSE {Append(s, c) : s \in StrOfLen(alphabet, n - 1), c \in alphabet}

Has(s, c) == \E i \in 1..Len(s) : s[i] = c

Count(s, c) == Cardinality({i \in 1..Len(s) : s[i] = c})

\* str.replace(old, new) for a one-character old and a text new
RECURSIVE Replace(_, _, _)
Replace(s, old, new) ==
    IF s = <<>> THEN <<>>
    ELSE (IF Head(s) = old THEN new ELSE <<Head(s)>>) \o Replace(Tail(s), old, new)

\* re.sub(r'[<chars>]', '', s)
RemoveChars(s, chars) == SelectSeq(s, LAMBDA c : c \notin chars)

\* re.sub(r'[^<chars>]', '', s)
KeepChars(s, chars) == SelectSeq(s, LAMBDA c : c \in chars)

RECURSIVE LStrip(_)
LStrip(s) ==
    IF s # <<>> /\ Head(s) = " " THEN LStrip(Tail(s)) ELSE s

RECURSIVE RStrip(_)
RStrip(s) ==
    IF s # <<>> /\ s[Len(s)] = " "
    THEN RStrip(SubSeq(s, 1, Len(s) - 1)) ELSE s

\* str.strip()
Strip(s) == RStrip(LStrip(s))

\* str.lower()
Lower(s) ==
    LET LowerChar(c) ==
            CASE c = "A" -> "a"
              [] c = "B" -> "b"
              [] c = "C" -> "c"
              [] c = "M" -> "m"
              [] c = "N" -> "n"
              [] c = "T" -> "t"
              [] OTHER -> c
    IN  [i \in 1..Len(s) |-> LowerChar(s[i])]

Digits == {"0", "1", "2", "3", "4", "5", "6", "7", "8", "9"}

DigitChar(d) == <<"0", "1", "2", "3", "4", "5", "6", "7", "8", "9">>[d + 1]

\* str(n) / the f-string rendering of a non-negative integer
RECURSIVE IntToStr(_)
IntToStr(n) ==
    IF n < 10 THEN <<DigitChar(n)>>
    ELSE Append(IntToStr(n \div 10), DigitChar(n % 10))

\* int(s) for a text of digits ("" reads as 0)
RECURSIVE DigitsVal(_)
DigitsVal(s) ==
    LET DigitVal(c) == CHOOSE d \in 0..9 : DigitChar(d) = c
    IN  IF s = <<>> THEN 0
        ELSE 10 * DigitsVal(SubSeq(s, 1, Len(s) - 1)) + DigitVal(s[Len(s)])

(***************************************************************************)
(* CSVReader.read_data: the column-cleaning loop.                          *)
(***************************************************************************)
\* cleaned_col = col.strip().lower().replace(' ', '_')
CleanName(col) == Replace(Lower(Strip(col)), " ", <<"_">>)

\* f"{cleaned_col}_{suffix}"
Suffixed(cleaned_col, suffix) == cleaned_col \o <<"_">> \o IntToStr(suffix)

\* mutant: the suffix is not advanced past names already emitted
FindSuffixFirst(cleaned_col, seen, suffix) == suffix

\* suffix = 1; while f"{cleaned_col}_{suffix}" in seen_columns: suffix += 1
RECURSIVE FindSuffix(_, _, _)
FindSuffix(cleaned_col, seen, suffix) ==
    IF Suffixed(cleaned_col, suffix) \in seen
    THEN FindSuffix(cleaned_col, seen, suffix + 1)
    ELSE suffix

\* the name one iteration of the loop emits for a raw header
UniqueName(col, seen) ==
    LET cleaned_col == CleanName(col)
    IN  IF cleaned_col \in seen
        THEN Suffixed(cleaned_col, FindSuffix(cleaned_col, seen, 1))
        ELSE cleaned_col

\* the whole loop, as read_data runs it before returning the frame
RECURSIVE CleanFrom(_, _, _)
CleanFrom(cols, new, seen) ==
    IF cols = <<>> THEN new
    ELSE LET name == UniqueName(Head(cols), seen)
         IN  CleanFrom(Tail(cols), Append(new, name), seen \cup {name})

CleanColumns(cols) == CleanFrom(cols, <<>>, {})

\* raw headers the loop is run on: case, outer and inner spaces, the empty
\* header, and names that equal a suffixed name the loop generates
RawHeaders ==
    { <<"a">>, <<"A">>, <<" ", "a", " ">>, <<"a", " ", "1">>,
      <<"a", "_", "1">>, <<"a", "_", "2">>, <<"a", "_", "1", "_", "1">>,
      <<>>, <<"_", "1">> }

InitHeader ==
    /\ original_columns \in UNION {[1..n -> RawHeaders] : n \in 0..MaxHeaders}
    /\ new_columns = <<>>
    /\ seen_columns = {}
    /\ col_idx = 0

HeaderIdle ==
    /\ original_columns = <<>>
    /\ new_columns = <<>>
    /\ seen_columns = {}
    /\ col_idx = 0

\* one iteration of "for col in original_columns"
CleanColumn ==
    /\ col_idx < Len(original_columns)
    /\ LET name == UniqueName(original_columns[col_idx + 1], seen_columns)
       IN  /\ seen_columns' = seen_columns \cup {name}
           /\ new_columns' = Append(new_columns, name)
    /\ col_idx' = col_idx + 1
    /\ UNCHANGED <<configVars, addressVars, original_columns, currencyVars, transformVars, writerVars, pipelineVars>>

(***************************************************************************)
(* DataTransformer._parse_currency_amount.                                 *)
(*                                                                         *)
(* A Python value is a tagged record: PyStr(s), PyNone, PyFloat(x).  A     *)
(* float is the decimal number m / 10^e, kept normalised (no trailing      *)
(* zero in the fraction), so that equal numbers are equal records.         *)
(***************************************************************************)
PyStr(s) == [t |-> "str", s |-> s]
PyNone == [t |-> "none"]
PyNaN == [t |-> "nan"]

\* no call of _parse_address under way
AddressIdle == address_arg = PyNone /\ address_out = Unset

RECURSIVE Pow10(_)
Pow10(n) == IF n = 0 THEN 1 ELSE 10 * Pow10(n - 1)

RECURSIVE Norm(_, _)
Norm(m, e) ==
    IF e > 0 /\ m % 10 = 0 THEN Norm(m \div 10, e - 1) ELSE [m |-> m, e |-> e]

Num(m, e) == Norm(m, e)

Zero == Num(0, 0)

\* float addition (total += ...)
NumAdd(x, y) ==
    LET e == IF x.e > y.e THEN x.e ELSE y.e
    IN  Num(x.m * Pow10(e - x.e) + y.m * Pow10(e - y.e), e)

CurrencySymbols == {"€", "$", "£", "¥"}

\* position of the first occurrence of c in s (0 when absent)
RECURSIVE IndexOf(_, _, _)
IndexOf(s, c, i) ==
    IF i > Len(s) THEN 0 ELSE IF s[i] = c THEN i ELSE IndexOf(s, c, i + 1)

\* float(s) accepts a text of digits and '.' iff it has a digit and at most
\* one '.'
FloatOk(s) == Count(s, ".") <= 1 /\ \E i \in 1..Len(s) : s[i] \in Digits

FloatOf(s) ==
    LET dot == IndexOf(s, ".", 1)
        whole == IF dot = 0 THEN s ELSE SubSeq(s, 1, dot - 1)
        frac == IF dot = 0 THEN <<>> ELSE SubSeq(s, dot + 1, Len(s))
    IN  Num(DigitsVal(whole \o frac), Len(frac))

\* mutant: every comma is taken for a thousands separator
FixSeparatorsCommaDropped(cleaned_amount) == Replace(cleaned_amount, ",", <<>>)

\* the separator handling: lines 101-113
FixSeparators(cleaned_amount) ==
    IF Has(cleaned_amount, ",") /\ Has(cleaned_amount, ".")
    THEN Replace(Replace(cleaned_amount, ".", <<>>), ",", <<".">>)
    ELSE IF Has(cleaned_amount, ",")
    THEN LET comma == IndexOf(cleaned_amount, ",", 1)
             \* comma_parts = cleaned_amount.split(',')
             n_parts == Count(cleaned_amount, ",") + 1
             part1 == SubSeq(cleaned_amount, comma + 1, Len(cleaned_amount))
         IN  IF n_parts = 2 /\ Len(part1) <= 2
             THEN Replace(cleaned_amount, ",", <<".">>)
             ELSE Replace(cleaned_amount, ",", <<>>)
    ELSE cleaned_amount

parse_currency_amount(v) ==
    IF v.t # "str" THEN Zero
    ELSE LET stripped == RemoveChars(v.s, CurrencySymbols)
             fixed == FixSeparators(stripped)
             cleaned_amount == KeepChars(fixed, Digits \cup {"."})
         IN  IF FloatOk(cleaned_amount) THEN FloatOf(cleaned_amount) ELSE Zero

(***************************************************************************)
(* Amount texts.  An amount is written from its whole part and its cents   *)
(* in the European convention ('.' thousands, ',' decimal) or the US       *)
(* convention (',' thousands, '.' decimal), with an optional currency      *)
(* symbol; or it is free text.                                             *)
(***************************************************************************)
\* digits grouped by three from the right with the thousands separator
RECURSIVE Grouped(_, _)
Grouped(digits, sep) ==
    IF Len(digits) <= 3 THEN digits
    ELSE Grouped(SubSeq(digits, 1, Len(digits) - 3), sep) \o <<sep>>
         \o SubSeq(digits, Len(digits) - 2, Len(digits))

WriteAmount(w) ==
    LET ThousandsSep == IF w.conv = "EU" THEN "." ELSE ","
        DecimalSep == IF w.conv = "EU" THEN "," ELSE "."
        TwoDigits == <<DigitChar(w.cents \div 10), DigitChar(w.cents % 10)>>
    IN  (IF w.symbol = "" THEN <<>> ELSE <<w.symbol>>)
        \o (IF w.grouped THEN Grouped(IntToStr(w.whole), ThousandsSep)
            ELSE IntToStr(w.whole))
        \o (IF w.decimals THEN <<DecimalSep>> \o TwoDigits ELSE <<>>)

\* an amount is written with two decimals or (cents being 0) with none
WrittenAmounts ==
    {w \in [kind : {"written"}, whole : 0..MaxWhole, decimals : BOOLEAN,
            cents : {0, 5, 50, 56}, conv : {"EU", "US"}, grouped : BOOLEAN,
            symbol : {"", "€", "$"}] : w.decimals \/ w.cents = 0}

AmountAlphabet == {"€", "$", "1", "5", "0", ",", ".", "x"}

FreeText == [kind |-> "free"]

\* the amounts of the test data: '€100,50', '$50.25', '£200.00', '¥5000'
DocumentedAmounts ==
    { <<"€", "1", "0", "0", ",", "5", "0">>, <<"$", "5", "0", ".", "2", "5">>,
      <<"£", "2", "0", "0", ".", "0", "0">>, <<"¥", "5", "0", "0", "0">> }

InitCurrency ==
    /\ \/ /\ written \in WrittenAmounts
          /\ amount_arg = PyStr(WriteAmount(written))
       \/ /\ written = FreeText
          /\ amount_arg \in {PyStr(s) : s \in UNION {StrOfLen(AmountAlphabet, k) : k \in 0..MaxAmountLen}}
                            \cup {PyNone, PyNaN}
       \/ /\ written = [kind |-> "documented"]
          /\ amount_arg \in {PyStr(s) : s \in DocumentedAmounts}
    /\ amount_out = Unset

CurrencyIdle ==
    /\ written = FreeText
    /\ amount_arg = PyNone
    /\ amount_out = Unset

ParseAmount ==
    /\ amount_out = Unset
    /\ amount_out' = parse_currency_amount(amount_arg)
    /\ UNCHANGED <<configVars, addressVars, written, amount_arg, headerVars, transformVars, writerVars, pipelineVars>>

(***************************************************************************)
(* Config.  A setting is a text PyStr(s), with s a sequence of pieces and   *)
(* <<>> the empty text, or is not set in the environment (Unset).          *)
(***************************************************************************)
\* os.getenv(key, default)
getenv(key, default) == IF environ[key] = Unset THEN default ELSE environ[key]

\* the class attributes of Config, lines 14-22
Config ==
    [ DB_URL |-> getenv("DB_URL", PyNone),
      DB_USER |-> getenv("DB_USER", PyStr(<<"user">>)),
      DB_PASSWORD |-> getenv("DB_PASSWORD", PyStr(<<"password">>)),
      DB_HOST |-> getenv("DB_HOST", PyStr(<<"localhost">>)),
      DB_PORT |-> getenv("DB_PORT", PyStr(<<"5432">>)),
      DB_NAME |-> getenv("DB_NAME", PyStr(<<"bynd_db">>)) ]

\* the property Config.DB_CONNECTION_STRING; None and '' are falsy
DB_CONNECTION_STRING(self) ==
    IF self.DB_URL # PyNone /\ self.DB_URL # PyStr(<<>>)
    THEN self.DB_URL
    ELSE PyStr(<<"postgresql://">> \o self.DB_USER.s \o <<":">> \o self.DB_PASSWORD.s
               \o <<"@">> \o self.DB_HOST.s \o <<":">> \o self.DB_PORT.s
               \o <<"/">> \o self.DB_NAME.s)

\* environments: each setting not set, set to the empty text, or set
Environments ==
    [ DB_URL : {Unset, PyStr(<<>>), PyStr(<<"sqlite:///", "pipeline.db">>),
                PyStr(<<"postgresql://", "u:p@h:1/d">>)},
      DB_USER : {Unset, PyStr(<<>>), PyStr(<<"alice">>)},
      DB_PASSWORD : {Unset, PyStr(<<>>), PyStr(<<"secret">>)},
      DB_HOST : {Unset, PyStr(<<>>), PyStr(<<"db.example">>)},
      DB_PORT : {Unset, PyStr(<<>>), PyStr(<<"6543">>)},
      DB_NAME : {Unset, PyStr(<<>>), PyStr(<<"sales">>)} ]

InitConfig ==
    /\ environ \in Environments
    /\ connection_string = Unset

ConfigIdle ==
    /\ environ = [k \in {"DB_URL", "DB_USER", "DB_PASSWORD", "DB_HOST", "DB_PORT",
                         "DB_NAME"} |-> Unset]
    /\ connection_string = Unset

\* Config().DB_CONNECTION_STRING
ResolveConnectionString ==
    /\ connection_string = Unset
    /\ connection_string' = DB_CONNECTION_STRING(Config)
    /\ UNCHANGED <<environ, headerVars, currencyVars, transformVars, writerVars,
                   pipelineVars, addressVars>>

(***************************************************************************)
(* Python values of the transformer.  A dict is [t |-> "dict", d |-> f]    *)
(* with f a function on its keys; a list is [t |-> "list", v |-> seq].     *)
(***************************************************************************)
PyDict(f) == [t |-> "dict", d |-> f]
PyList(v) == [t |-> "list", v |-> v]
PyInt(n) == [t |-> "int", n |-> n]
EmptyDict == PyDict([k \in {} |-> PyNone])

\* dict.get(key, default)
DictGet(x, key, default) == IF key \in DOMAIN x.d THEN x.d[key] ELSE default

\* str(v)
PyStrOf(v) ==
    CASE v.t = "str" -> v
      [] v.t = "int" -> PyStr(IntToStr(v.n))
      [] v.t = "none" -> PyStr(<<"N", "o", "n", "e">>)
      [] v.t = "nan" -> PyStr(<<"n", "a", "n">>)

(***************************************************************************)
(* DataTransformer._parse_address.  The address text is held by what       *)
(* ast.literal_eval makes of it after the repairs of lines 25-45:          *)
(* [t |-> "str", lit |-> v], v the evaluated literal or ParseError.        *)
(***************************************************************************)
ParseError == [t |-> "error"]
AddressText(lit) == [t |-> "str", lit |-> lit]

parse_address(address_str) ==
    IF address_str.t # "str" THEN EmptyDict                    \* line 20-22
    ELSE LET data == address_str.lit
         IN  IF data.t = "error" THEN PyNone                   \* line 58-60
             ELSE IF data.t # "dict" THEN PyNone               \* TypeError, line 58-60
             ELSE IF "address" \notin DOMAIN data.d THEN PyNone \* falls off the end
             ELSE LET address == data.d["address"]
                  IN  IF address.t # "dict" THEN PyNone        \* AttributeError, line 58-60
                      ELSE PyDict(
                             "street" :> DictGet(address, "streeet", PyStr(<<>>))
                          @@ "city" :> DictGet(address, "city", PyStr(<<>>))
                          @@ "post_code" :> PyStrOf(DictGet(address, "post code", PyStr(<<>>)))
                          @@ "country" :> DictGet(address, "country", PyStr(<<>>)))

(***************************************************************************)
(* DataTransformer._parse_transactions.  The transactions text is held by  *)
(* what json.loads makes of it after the repairs of lines 79-83:           *)
(* [t |-> "str", json |-> v], v the decoded value or ParseError.           *)
(***************************************************************************)
TransactionsText(json) == [t |-> "str", json |-> json]

parse_transactions(transactions_str) ==
    IF transactions_str.t # "str" THEN PyList(<<>>)            \* line 74-76
    ELSE IF transactions_str.json.t = "error" THEN PyList(<<>>) \* line 85-87
    ELSE transactions_str.json                                  \* line 84

\* len(x): defined for lists, dicts and strings only
HasLen(x) == x.t \in {"list", "dict", "str"}

PyLen(x) ==
    CASE x.t = "list" -> Len(x.v)
      [] x.t = "dict" -> Cardinality(DOMAIN x.d)
      [] x.t = "str" -> Len(x.s)

\* "for tx in tx_list" followed by tx.get(...): every element must be a dict
\* (iterating a dict yields its keys, a string its characters)
IterableOfDicts(x) ==
    CASE x.t = "list" -> \A i \in 1..Len(x.v) : x.v[i].t = "dict"
      [] x.t = "dict" -> DOMAIN x.d = {}
      [] x.t = "str" -> x.s = <<>>
      [] OTHER -> FALSE

\* mutant: a default amount that is not zero
DefaultAmountOne == PyStr(<<"€", "1", ",", "0", "0">>)

\* tx.get('amount', '€0,00')
DefaultAmount == PyStr(<<"€", "0", ",", "0", "0">>)

\* the loop of calculate_total_amount, from a running total
RECURSIVE TotalFrom(_, _)
TotalFrom(txs, total) ==
    IF txs = <<>> THEN total
    ELSE LET amount_str == PyStrOf(DictGet(Head(txs), "amount", DefaultAmount))
         IN  TotalFrom(Tail(txs), NumAdd(total, parse_currency_amount(amount_str)))

calculate_total_amount(tx_list) ==
    TotalFrom(IF tx_list.t = "list" THEN tx_list.v ELSE <<>>, Zero)

(***************************************************************************)
(* DataTransformer.transform_data.  A frame is [t |-> "frame", columns,    *)
(* rows], each row a sequence of cells aligned with the columns; a call    *)
(* that raises yields [t |-> "raise", exc].                                *)
(***************************************************************************)
Frame(columns, rows) == [t |-> "frame", columns |-> columns, rows |-> rows]
Raise(exc) == [t |-> "raise", exc |-> exc]

cNames == <<"n", "a", "m", "e", "s">>
cMail == <<"m", "a", "i", "l">>
cAddress == <<"a", "d", "d", "r", "e", "s", "s">>
cTransactions == <<"t", "r", "a", "n", "s", "a", "c", "t", "i", "o", "n", "s">>
cCreated ==
    <<"a", "c", "c", "o", "u", "n", "t", "_", "c", "r", "e", "a", "t", "e", "d", "_", "a", "t">>
cCreated1 == cCreated \o <<"_", "1">>

HasColumn(df, name) == \E i \in 1..Len(df.columns) : df.columns[i] = name

\* df[name], a sequence with one cell per row
Column(df, name) ==
    LET ColumnIndex == CHOOSE i \in 1..Len(df.columns) : df.columns[i] = name
    IN  [r \in 1..Len(df.rows) |-> df.rows[r][ColumnIndex]]

NaT == [t |-> "nat"]
DateText(ok, ts) == [t |-> "str", ok |-> ok, ts |-> ts]

\* pd.to_datetime(..., errors='coerce', format='%Y-%m-%d %H:%M:%S.%f')
ToDatetime(cell) ==
    IF cell.t = "str" /\ cell.ok THEN [t |-> "ts", ts |-> cell.ts] ELSE NaT

\* lines 165-170
CreatedAt(df) ==
    IF HasColumn(df, cCreated)
    THEN [r \in 1..Len(df.rows) |-> ToDatetime(Column(df, cCreated)[r])]
    ELSE IF HasColumn(df, cCreated1)
    THEN [r \in 1..Len(df.rows) |-> ToDatetime(Column(df, cCreated1)[r])]
    ELSE [r \in 1..Len(df.rows) |-> NaT]

\* x.get(key) on a parsed address
AddressField(x, key) == DictGet(x, key, PyNone)

OutputRow(df, components, parsed, created, r) ==
    [ names |-> Column(df, cNames)[r],
      email |-> Column(df, cMail)[r],
      address_street |-> AddressField(components[r], "street"),
      address_city |-> AddressField(components[r], "city"),
      address_post_code |-> AddressField(components[r], "post_code"),
      address_country |-> AddressField(components[r], "country"),
      account_created_at |-> created[r],
      num_transactions |-> PyLen(parsed[r]),
      total_transaction_amount |-> calculate_total_amount(parsed[r]) ]

OutFrame(rows) == [t |-> "frame", rows |-> rows]

transform_data(df) ==
    LET n == Len(df.rows) IN
    IF ~HasColumn(df, cNames) \/ ~HasColumn(df, cMail) \/ ~HasColumn(df, cAddress)
    THEN Raise("KeyError")                                      \* line 131-137
    ELSE LET components == [r \in 1..n |-> parse_address(Column(df, cAddress)[r])] IN
    IF \E r \in 1..n : components[r].t # "dict"
    THEN Raise("AttributeError")                                \* line 141
    ELSE IF ~HasColumn(df, cTransactions)
    THEN Raise("KeyError")                                      \* line 150
    ELSE LET parsed == [r \in 1..n |-> parse_transactions(Column(df, cTransactions)[r])] IN
    IF \E r \in 1..n : ~HasLen(parsed[r])
    THEN Raise("TypeError")                                     \* line 151
    ELSE IF \E r \in 1..n : ~IterableOfDicts(parsed[r])
    THEN Raise("AttributeError")                                \* line 156
    ELSE OutFrame([r \in 1..n |-> OutputRow(df, components, parsed, CreatedAt(df), r)])

(***************************************************************************)
(* Field texts the transformer is run on.                                  *)
(***************************************************************************)
tMain == PyStr(<<"1", " ", "M", "a", "i", "n">>)
tTown == PyStr(<<"T", "o", "w", "n">>)
tPost == PyStr(<<"1", "2", "3", "4", "5">>)
tUSA == PyStr(<<"U", "S", "A">>)
tJohn == PyStr(<<"J", "o", "h", "n">>)
tJane == PyStr(<<"J", "a", "n", "e">>)
tMail == PyStr(<<"j", "@", "x">>)

\* {'address': {'streeet': '1 Main', 'city': 'Town', 'post code': '12345', 'country': 'USA'}}
AddrGood ==
    AddressText(PyDict("address" :> PyDict(
        "streeet" :> tMain @@ "city" :> tTown @@ "post code" :> tPost
        @@ "country" :> tUSA)))
\* {'address': {'city': 'Town', 'post code': 12345}}
AddrPartial ==
    AddressText(PyDict("address" :> PyDict("city" :> tTown @@ "post code" :> PyInt(12345))))
\* {'location': 'Town'}
AddrNoKey == AddressText(PyDict("location" :> tTown))
\* {'address': 'Town'}
AddrInnerText == AddressText(PyDict("address" :> tTown))
\* text that is no Python literal
AddrBroken == AddressText(ParseError)

AddressCells == {AddrGood, AddrPartial, AddrNoKey, AddrInnerText, AddrBroken, PyNaN}

\* inner mappings: any of the four keys present, the city empty or not, the
\* post code a text or a number
AddressDicts ==
    {PyDict([k \in K |-> CASE k = "streeet" -> tMain
                          [] k = "city" -> city
                          [] k = "post code" -> post
                          [] k = "country" -> tUSA]) :
        K \in SUBSET {"streeet", "city", "post code", "country"},
        city \in {tTown, PyStr(<<>>)}, post \in {tPost, PyInt(12345)}}

\* arguments of _parse_address: literals with and without the 'address' key,
\* literals that are no mapping, text that is no literal, and non-strings
AddressArgs ==
    {AddressText(PyDict("address" :> a)) : a \in AddressDicts}
    \cup {AddressText(PyDict("address" :> a @@ "id" :> PyInt(1))) : a \in AddressDicts}
    \cup {AddressText(EmptyDict), AddressText(PyList(<<>>)), AddressText(PyInt(5)),
          PyNone, PyInt(5)}
    \cup AddressCells

InitAddress ==
    /\ address_arg \in AddressArgs
    /\ address_out = Unset

\* self._parse_address(address_arg)
ParseAddress ==
    /\ address_out = Unset
    /\ address_out' = parse_address(address_arg)
    /\ UNCHANGED <<address_arg, configVars, headerVars, currencyVars, transformVars,
                   writerVars, pipelineVars>>

aEuro == PyStr(<<"€", "1", "0", "0", ",", "5", "0">>)
aDollar == PyStr(<<"$", "5", "0", ".", "2", "5">>)

Tx(id, amount) == PyDict("id" :> PyStr(<<"T", id>>) @@ "amount" :> amount)
TxNoAmount(id) == PyDict("id" :> PyStr(<<"T", id>>))

\* [{'id': 'T1', 'amount': '€100,50'}, {'id': 'T2', 'amount': '$50.25'}]
TxTwo == TransactionsText(PyList(<<Tx("1", aEuro), Tx("2", aDollar)>>))
\* [{'id': 'T3'}, {'id': 'T4', 'amount': '$50.25'}, {'id': 'T5', 'amount': None}]
TxDefaults ==
    TransactionsText(PyList(<<TxNoAmount("3"), Tx("4", aDollar), Tx("5", PyNone)>>))
\* [{'id': 'T6', 'amount': 'x'}]
TxTextAmount == TransactionsText(PyList(<<Tx("6", PyStr(<<"x">>))>>))
\* []
TxNone == TransactionsText(PyList(<<>>))
\* text that is no JSON
TxBroken == TransactionsText(ParseError)
\* null
TxNull == TransactionsText(PyNone)
\* [1]
TxNumbers == TransactionsText(PyList(<<PyInt(1)>>))

TransactionCells ==
    {TxTwo, TxDefaults, TxTextAmount, TxNone, TxBroken, TxNull, TxNumbers, PyNaN}

StandardColumns == <<cNames, cMail, cAddress, cTransactions, cCreated>>

FrameRows ==
    {<<tJohn, tMail, a, x, d>> :
        a \in AddressCells, x \in TransactionCells, d \in {DateText(TRUE, 1), PyNaN}}
    \cup {<<tJane, tMail, AddrGood, TxTwo, d>> : d \in {DateText(TRUE, 1), DateText(FALSE, 0), PyNaN}}

InitTransform ==
    /\ data_df \in {Frame(StandardColumns, rows) :
                      rows \in UNION {[1..n -> FrameRows] : n \in 0..MaxFrameRows}}
    /\ transformed_df = Unset

TransformIdle ==
    /\ data_df = Unset
    /\ transformed_df = Unset

\* a call of transform_data(data_df)
Transform ==
    /\ transformed_df = Unset
    /\ transformed_df' = transform_data(data_df)
    /\ UNCHANGED <<configVars, addressVars, data_df, headerVars, currencyVars, writerVars, pipelineVars>>

(***************************************************************************)
(* The sink: DataWriter.  The target table is Absent or Table(rows).       *)
(***************************************************************************)
Absent == [t |-> "absent"]
Table(rows) == [t |-> "table", rows |-> rows]

TableRows(tb) == IF tb.t = "table" THEN tb.rows ELSE <<>>

\* DataWriter.read_data: pd.read_sql_table of the target table
sink_read_data(tb) ==
    IF tb.t = "table" THEN OutFrame(tb.rows) ELSE Raise("ValueError")

InWrite == {"get_engine", "check", "to_sql", "insert"}

\* what the steps inside a call of write_data leave alone
callFrame == <<if_exists, w_df, prior, observed, calls>>
outsideWriter == <<headerVars, currencyVars, transformVars, pipelineVars>>

\* _get_engine, engine is None: create_engine and the test connection succeed
GetEngineOk ==
    /\ wpc = "get_engine" /\ engine = "none"
    /\ conn_attempts' = conn_attempts + 1
    /\ engine' = "connected"
    /\ wpc' = "check"
    /\ UNCHANGED <<configVars, addressVars, table, write_attempts, errors, callFrame, outsideWriter>>

\* mutant: a failed connection is attempted again instead of raised
GetEngineFailRetried ==
    /\ wpc = "get_engine" /\ engine = "none"
    /\ conn_attempts' = conn_attempts + 1
    /\ errors' = errors \cup {"Error connecting to the database"}
    /\ UNCHANGED <<configVars, addressVars, table, wpc, engine, write_attempts, callFrame, outsideWriter>>

\* _get_engine, engine is None: the connection fails; logged and raised
GetEngineFail ==
    /\ wpc = "get_engine" /\ engine = "none"
    /\ conn_attempts' = conn_attempts + 1
    /\ engine' = "none"
    /\ errors' = errors \cup {"Error connecting to the database"}
    /\ wpc' = "raised"
    /\ UNCHANGED <<configVars, addressVars, table, write_attempts, callFrame, outsideWriter>>

\* _get_engine, engine already created by an earlier call on this writer
GetEngineCached ==
    /\ wpc = "get_engine" /\ engine = "connected"
    /\ wpc' = "check"
    /\ UNCHANGED <<configVars, addressVars, table, engine, conn_attempts, write_attempts, errors, callFrame, outsideWriter>>

\* mutant: the existing table is not dropped before the rows are appended
DropTableKept ==
    /\ wpc = "check" /\ if_exists = "replace" /\ table.t = "table"
    /\ wpc' = "to_sql"
    /\ UNCHANGED <<configVars, addressVars, table, engine, conn_attempts, write_attempts, errors, callFrame,
                   outsideWriter>>

\* if_exists == 'replace' and the table exists: DROP TABLE, committed
DropTable ==
    /\ wpc = "check" /\ if_exists = "replace" /\ table.t = "table"
    /\ table' = Absent
    /\ wpc' = "to_sql"
    /\ UNCHANGED <<configVars, addressVars, engine, conn_attempts, write_attempts, errors, callFrame, outsideWriter>>

\* if_exists == 'replace' and the table does not exist
SkipDrop ==
    /\ wpc = "check" /\ if_exists = "replace" /\ table.t = "absent"
    /\ wpc' = "to_sql"
    /\ UNCHANGED <<configVars, addressVars, table, engine, conn_attempts, write_attempts, errors, callFrame, outsideWriter>>

\* the connect / inspect / drop block raises: logged at line 68 and raised
DropFail ==
    /\ wpc = "check" /\ if_exists = "replace"
    /\ errors' = errors \cup {"Error writing data to database"}
    /\ wpc' = "raised"
    /\ UNCHANGED <<configVars, addressVars, table, engine, conn_attempts, write_attempts, callFrame, outsideWriter>>

\* if_exists is 'append' or 'fail': pandas handles it directly (line 63)
DirectToSql ==
    /\ wpc = "check" /\ if_exists # "replace"
    /\ wpc' = "to_sql"
    /\ UNCHANGED <<configVars, addressVars, table, engine, conn_attempts, write_attempts, errors, callFrame, outsideWriter>>

\* to_sql(if_exists='fail') on an existing table raises
ToSqlTableExists ==
    /\ wpc = "to_sql" /\ if_exists = "fail" /\ table.t = "table"
    /\ write_attempts' = write_attempts + 1
    /\ errors' = errors \cup {"Error writing data to database"}
    /\ wpc' = "raised"
    /\ UNCHANGED <<configVars, addressVars, table, engine, conn_attempts, callFrame, outsideWriter>>

\* df.to_sql: the table is created when absent and the rows are appended,
\* in one transaction
ToSqlAtomic ==
    /\ wpc = "to_sql" /\ ~(if_exists = "fail" /\ table.t = "table")
    /\ write_attempts' = write_attempts + 1
    /\ table' = Table(TableRows(table) \o w_df.rows)
    /\ wpc' = "returned"
    /\ UNCHANGED <<configVars, addressVars, engine, conn_attempts, errors, callFrame, outsideWriter>>

\* df.to_sql on a database whose CREATE TABLE is not transactional: the
\* empty table is visible before the rows are
ToSqlCreate ==
    /\ wpc = "to_sql" /\ table.t = "absent"
    /\ write_attempts' = write_attempts + 1
    /\ table' = Table(<<>>)
    /\ wpc' = "insert"
    /\ UNCHANGED <<configVars, addressVars, engine, conn_attempts, errors, callFrame, outsideWriter>>

ToSqlInsert ==
    /\ wpc = "insert"
    /\ table' = Table(TableRows(table) \o w_df.rows)
    /\ wpc' = "returned"
    /\ UNCHANGED <<configVars, addressVars, engine, conn_attempts, write_attempts, errors, callFrame, outsideWriter>>

\* df.to_sql raises; the insert transaction is rolled back; logged at line
\* 68 and raised
ToSqlFail ==
    /\ wpc \in {"to_sql", "insert"}
    /\ write_attempts' = IF wpc = "to_sql" THEN write_attempts + 1 ELSE write_attempts
    /\ errors' = errors \cup {"Error writing data to database"}
    /\ wpc' = "raised"
    /\ UNCHANGED <<configVars, addressVars, table, engine, conn_attempts, callFrame, outsideWriter>>

\* the steps of write_data(df, if_exists='replace')
ReplaceStep ==
    \/ GetEngineOk \/ GetEngineFail
    \/ DropTable \/ SkipDrop \/ DropFail
    \/ ToSqlAtomic \/ ToSqlCreate \/ ToSqlInsert \/ ToSqlFail

\* a concurrent reader of the target table
ReadTable ==
    /\ observed' = sink_read_data(table)
    /\ observed' # observed
    /\ UNCHANGED <<configVars, addressVars, table, wpc, engine, if_exists, w_df, conn_attempts, write_attempts,
                   errors, prior, calls, outsideWriter>>

(***************************************************************************)
(* Direct calls of DataWriter.write_data on one writer object.             *)
(***************************************************************************)
SinkRow(name, n) ==
    [ names |-> name, email |-> tMail,
      address_street |-> tMain, address_city |-> tTown,
      address_post_code |-> tPost, address_country |-> tUSA,
      account_created_at |-> [t |-> "ts", ts |-> 1],
      num_transactions |-> n, total_transaction_amount |-> Num(n, 0) ]

OldRow == SinkRow(PyStr(<<"O", "l", "d">>), 9)

PriorTables == {Absent, Table(<<>>), Table(<<OldRow>>), Table(<<OldRow, OldRow>>)}

SinkFrames ==
    {OutFrame(rows) :
        rows \in UNION {[1..n -> {SinkRow(tJohn, 2), SinkRow(tJane, 0)}] : n \in 0..MaxRows}}

WriterIdle ==
    /\ wpc = "idle" /\ engine = "none" /\ if_exists = "none" /\ w_df = Unset
    /\ conn_attempts = 0 /\ write_attempts = 0 /\ errors = {}
    /\ prior = Unset /\ observed = Unset

PipelineIdle ==
    /\ pc = "idle" /\ source = Unset /\ runs = 0 /\ output = {} /\ stages = {}
    /\ failed_stage = "none" /\ table_before = Unset /\ first_sink = Unset

InitSink ==
    /\ table \in PriorTables
    /\ WriterIdle /\ PipelineIdle /\ TransformIdle
    /\ calls = 0

\* writer.write_data(df, if_exists=mode)
CallWrite ==
    /\ wpc = "idle" /\ calls < MaxCalls
    /\ \E df \in SinkFrames, mode \in {"replace", "append", "fail"} :
          /\ w_df' = df
          /\ if_exists' = mode
    /\ calls' = calls + 1
    /\ wpc' = "get_engine"
    /\ prior' = table
    /\ observed' = Unset
    /\ conn_attempts' = 0 /\ write_attempts' = 0 /\ errors' = {}
    /\ UNCHANGED <<configVars, addressVars, table, engine, outsideWriter>>

\* write_data has returned or raised to its caller
ReturnWrite ==
    /\ wpc \in {"returned", "raised"}
    /\ wpc' = "idle"
    /\ UNCHANGED <<configVars, addressVars, table, engine, if_exists, w_df, conn_attempts, write_attempts,
                   errors, prior, observed, calls, outsideWriter>>

SinkNext ==
    \/ CallWrite
    \/ ReturnWrite
    \/ ReplaceStep
    \/ GetEngineCached
    \/ DirectToSql
    \/ ToSqlTableExists
    \/ ReadTable

(***************************************************************************)
(* CSVReader.read_data on a source file, and run_pipeline.                 *)
(***************************************************************************)
\* header rows of the source file; every data row has six cells
SourceHeaders ==
    LET rNames == <<" ", "N", "a", "m", "e", "s">>
        rMail == <<" ", "M", "a", "i", "l">>
        rAddress == <<" ", "A", "d", "d", "r", "e", "s", "s">>
        rAddr == <<" ", "A", "d", "d", "r">>
        rTransactions ==
            <<" ", "T", "r", "a", "n", "s", "a", "c", "t", "i", "o", "n", "s">>
        rCreated ==
            <<" ", "A", "c", "c", "o", "u", "n", "t", " ", "C", "r", "e", "a", "t", "e",
              "d", " ", "A", "t">>
        rCreatedAlt ==
            <<"a", "c", "c", "o", "u", "n", "t", " ", "c", "r", "e", "a", "t", "e", "d",
              " ", "a", "t", " ">>
        rCategory == <<" ", "C", "a", "t">>
    IN  { <<rNames, rMail, rAddress, rTransactions, rCreated, rCategory>>,
          <<rNames, rMail, rAddress, rTransactions, rCreated, rCreatedAlt>>,
          <<rNames, rMail, rAddress, rTransactions, rCategory, cCreated1>>,
          <<rNames, rMail, rAddr, rTransactions, rCreated, rCategory>> }

SourceRows ==
    { <<tJohn, tMail, AddrGood, TxTwo, DateText(TRUE, 1), DateText(TRUE, 2)>>,
      <<tJane, tMail, AddrPartial, TxDefaults, DateText(FALSE, 0), DateText(TRUE, 2)>>,
      <<tJane, tMail, PyNaN, TxBroken, PyNaN, PyNaN>>,
      <<tJohn, tMail, AddrBroken, TxTwo, DateText(TRUE, 1), PyNaN>> }

SourceFiles ==
    { [kind |-> "missing"], [kind |-> "empty"], [kind |-> "malformed"] }
    \cup { [kind |-> "csv", header |-> h, rows |-> rows] :
             h \in SourceHeaders,
             rows \in UNION {[1..n -> SourceRows] : n \in 0..MaxRows} }

\* mutant: a read failure is swallowed and an empty frame returned
read_data_swallowed(file) ==
    IF file.kind = "csv" THEN Frame(CleanColumns(file.header), file.rows)
    ELSE Frame(<<>>, <<>>)

\* CSVReader.read_data: pd.read_csv, then the column cleaning; every
\* exception is logged and re-raised
read_data(file) ==
    CASE file.kind = "missing" -> Raise("FileNotFoundError")
      [] file.kind = "empty" -> Raise("EmptyDataError")
      [] file.kind = "malformed" -> Raise("ParserError")
      [] file.kind = "csv" -> Frame(CleanColumns(file.header), file.rows)

insideRun == <<headerVars, currencyVars, source, runs, table_before, first_sink>>

\* run_pipeline is started: Config(), print("Starting data pipeline...")
StartPipeline ==
    /\ pc \in {"idle", "done", "aborted", "raised"} /\ runs < MaxRuns
    /\ pc' = "read"
    /\ runs' = runs + 1
    /\ output' = {"Starting data pipeline..."}
    /\ stages' = {}
    /\ failed_stage' = "none"
    /\ table_before' = table
    /\ data_df' = Unset /\ transformed_df' = Unset
    /\ wpc' = "idle" /\ engine' = "none" /\ if_exists' = "none" /\ w_df' = Unset
    /\ conn_attempts' = 0 /\ write_attempts' = 0 /\ errors' = {}
    /\ prior' = Unset /\ observed' = Unset
    /\ UNCHANGED <<configVars, addressVars, headerVars, currencyVars, source, table, calls, first_sink>>

\* lines 24-31: reader.read_data(), then the "is None" check
ReadData ==
    /\ pc = "read"
    /\ stages' = stages \cup {"read"}
    /\ LET df == read_data(source)
       IN  IF df.t = "raise"
           THEN /\ pc' = "raised" /\ failed_stage' = "read"
                /\ UNCHANGED <<configVars, addressVars, data_df, output>>
           ELSE IF df = PyNone
           THEN /\ pc' = "aborted" /\ failed_stage' = "read"
                /\ output' = output \cup {"Pipeline aborted due to data reading failure."}
                /\ UNCHANGED data_df
           ELSE /\ pc' = "transform" /\ data_df' = df
                /\ UNCHANGED <<configVars, addressVars, output, failed_stage>>
    /\ UNCHANGED <<configVars, addressVars, transformed_df, writerVars, insideRun>>

\* lines 34-41: transformer.transform_data(data_df), then the "is None" check
TransformData ==
    /\ pc = "transform"
    /\ stages' = stages \cup {"transform"}
    /\ LET out == transform_data(data_df)
       IN  IF out.t = "raise"
           THEN /\ pc' = "raised" /\ failed_stage' = "transform"
                /\ UNCHANGED <<configVars, addressVars, transformed_df, output>>
           ELSE IF out = PyNone
           THEN /\ pc' = "aborted" /\ failed_stage' = "transform"
                /\ output' = output \cup {"Pipeline aborted due to data transformation failure."}
                /\ UNCHANGED transformed_df
           ELSE /\ pc' = "sink" /\ transformed_df' = out
                /\ UNCHANGED <<configVars, addressVars, output, failed_stage>>
    /\ UNCHANGED <<configVars, addressVars, data_df, writerVars, insideRun>>

\* lines 44-45: DataWriter(...), writer.write_data(transformed_df, if_exists='replace')
StartWrite ==
    /\ pc = "sink" /\ wpc = "idle"
    /\ stages' = stages \cup {"write"}
    /\ w_df' = transformed_df
    /\ if_exists' = "replace"
    /\ wpc' = "get_engine"
    /\ prior' = table
    /\ observed' = Unset
    /\ UNCHANGED <<configVars, addressVars, table, engine, conn_attempts, write_attempts, errors, calls,
                   pc, output, failed_stage, transformVars, insideRun>>

\* line 47: write_data returned; print("Data pipeline finished.")
FinishPipeline ==
    /\ pc = "sink" /\ wpc = "returned"
    /\ pc' = "done"
    /\ output' = output \cup {"Data pipeline finished."}
    /\ first_sink' = IF first_sink = Unset THEN table ELSE first_sink
    /\ UNCHANGED <<configVars, addressVars, headerVars, currencyVars, transformVars, writerVars, source, runs,
                   stages, failed_stage, table_before>>

\* write_data raised: the error leaves run_pipeline
EscapeWrite ==
    /\ pc = "sink" /\ wpc = "raised"
    /\ pc' = "raised"
    /\ failed_stage' = "write"
    /\ UNCHANGED <<configVars, addressVars, output, stages, transformVars, writerVars, insideRun>>

InitPipeline ==
    /\ source \in SourceFiles
    /\ table \in PriorTables
    /\ pc = "idle" /\ runs = 0 /\ output = {} /\ stages = {}
    /\ failed_stage = "none" /\ table_before = Unset /\ first_sink = Unset
    /\ WriterIdle /\ calls = 0
    /\ TransformIdle /\ HeaderIdle /\ CurrencyIdle

(***************************************************************************)
(* Specifications.                                                         *)
(***************************************************************************)
SinkIdle ==
    /\ table = Absent /\ WriterIdle /\ PipelineIdle /\ calls = 0

Init == InitPipeline /\ ConfigIdle /\ AddressIdle

Next ==
    \/ StartPipeline
    \/ ReadData
    \/ TransformData
    \/ StartWrite
    \/ ReplaceStep
    \/ FinishPipeline
    \/ EscapeWrite
    \/ ReadTable

\* run_pipeline, run up to MaxRuns times on one source file and one sink,
\* with a concurrent reader of the sink
Spec == Init /\ [][Next]_vars

HeaderStart == InitHeader /\ CurrencyIdle /\ TransformIdle /\ SinkIdle /\ ConfigIdle /\ AddressIdle

\* the column-cleaning loop on any sequence of raw headers
SpecHeader == HeaderStart /\ [][CleanColumn]_vars

CurrencyStart == InitCurrency /\ HeaderIdle /\ TransformIdle /\ SinkIdle /\ ConfigIdle /\ AddressIdle

\* one call of _parse_currency_amount on any amount text
SpecCurrency == CurrencyStart /\ [][ParseAmount]_vars

TransformStart == InitTransform /\ HeaderIdle /\ CurrencyIdle /\ SinkIdle /\ ConfigIdle /\ AddressIdle

\* one call of transform_data on any frame with the standard columns
SpecTransform == TransformStart /\ [][Transform]_vars

SinkStart == InitSink /\ HeaderIdle /\ CurrencyIdle /\ ConfigIdle /\ AddressIdle

ConfigStart ==
    InitConfig /\ HeaderIdle /\ CurrencyIdle /\ TransformIdle /\ SinkIdle /\ AddressIdle

AddressStart ==
    InitAddress /\ HeaderIdle /\ CurrencyIdle /\ TransformIdle /\ SinkIdle /\ ConfigIdle

\* one call of _parse_address on any argument
SpecAddress == AddressStart /\ [][ParseAddress]_vars

\* one resolution of the connection string in any environment
SpecConfig == ConfigStart /\ [][ResolveConnectionString]_vars

\* direct calls of write_data on one writer, with a concurrent reader
SpecSink == SinkStart /\ [][SinkNext]_vars

(***************************************************************************)
(* The claims.                                                             *)
(***************************************************************************)

\* C1: after write_data(D, if_exists='replace') has returned, reading the
\* table back yields exactly the rows of D, in order and in number, whatever
\* the table held before (absent, empty or rows): no prior row remains.
C1_ReplaceYieldsWrittenRows ==
    (wpc = "returned" /\ if_exists = "replace") =>
        /\ sink_read_data(table) = w_df
        /\ Len(TableRows(table)) = Len(w_df.rows)

\* a replace of a table that held two rows by a frame of two rows has returned
C1_Witness ==
    /\ wpc = "returned" /\ if_exists = "replace"
    /\ prior = Table(<<OldRow, OldRow>>)
    /\ Len(w_df.rows) = 2

\* C2: whenever a second or later run of run_pipeline on the same source and
\* sink has finished, the table is what it was after the first finished run,
\* with one row per source row (nothing duplicated).
C2_RerunIdempotent ==
    (pc = "done" /\ runs >= 2) =>
        /\ table = first_sink
        /\ Len(TableRows(table)) = Len(source.rows)

\* the second run began on the table the first run left, and has finished
C2_Witness ==
    /\ pc = "done" /\ runs = 2
    /\ table_before = first_sink
    /\ Len(TableRows(table)) = 2

\* C3: during a write_data(if_exists='replace') that has not failed, what a
\* concurrent reader reads is the complete prior table or the complete new
\* table.
C3_ReaderSeesWholeTable ==
    (if_exists = "replace" /\ wpc \in InWrite /\ observed # Unset) =>
        observed \in {sink_read_data(prior), w_df}

\* the default an unparseable or absent field takes in an output row
C4_RowDefaults(cells, row) ==
    /\ row.names = cells[1]
    /\ row.email = cells[2]
    /\ (cells[3] \in {AddrNoKey, AddrInnerText, AddrBroken, PyNaN} =>
          /\ row.address_street = PyStr(<<>>)
          /\ row.address_city = PyStr(<<>>)
          /\ row.address_post_code = PyStr(<<>>)
          /\ row.address_country = PyStr(<<>>))
    /\ (cells[4] \in {TxBroken, TxNull, TxNumbers, PyNaN} =>
          /\ row.num_transactions = 0
          /\ row.total_transaction_amount = Zero)
    /\ (cells[5] \in {DateText(FALSE, 0), PyNaN} => row.account_created_at = NaT)

\* C4: on a frame that has the required columns transform_data never raises:
\* it returns one output row per input row, in order, each unparseable field
\* replaced by its default.
C4_FieldFailuresAbsorbed ==
    transformed_df # Unset =>
        /\ transformed_df.t = "frame"
        /\ Len(transformed_df.rows) = Len(data_df.rows)
        /\ \A r \in 1..Len(data_df.rows) :
              C4_RowDefaults(data_df.rows[r], transformed_df.rows[r])

\* C5: a run whose source cannot be read ends at the read stage with the
\* error raised, transform and write never started and the table as it was;
\* and write_data is entered, and the table changed, only by a run whose
\* read and transform stages have both returned a frame.
C5_NoWriteUnlessReadAndTransformed ==
    /\ (source.kind # "csv" /\ pc \notin {"idle", "read"}) =>
          /\ pc = "raised" /\ failed_stage = "read"
          /\ stages = {"read"}
          /\ wpc = "idle"
          /\ table = table_before
    /\ (pc # "idle" /\ (wpc # "idle" \/ table # table_before)) =>
          /\ data_df.t = "frame" /\ transformed_df.t = "frame"
          /\ stages = {"read", "transform", "write"}

\* a run on a missing file has ended and the table still holds its row
C5_Witness ==
    /\ source.kind = "missing" /\ pc = "raised"
    /\ table = Table(<<OldRow>>)

\* C6: a run that fails in the read or the transform stage ends by returning
\* after its abort message; only a failure of the writer leaves run_pipeline
\* as a raised error.
C6_StageFailureReturns ==
    /\ (failed_stage = "read" =>
          pc = "aborted" /\ "Pipeline aborted due to data reading failure." \in output)
    /\ (failed_stage = "transform" =>
          pc = "aborted"
          /\ "Pipeline aborted due to data transformation failure." \in output)
    /\ (pc = "raised" => failed_stage = "write")

\* C7: within a call of write_data there is at most one connection attempt
\* and at most one to_sql attempt; a call that raised made exactly one
\* connection attempt and logged the error; and a run whose writer failed
\* ends raised without the completion message.
C7_SinkFailureNotRetried ==
    /\ conn_attempts <= 1 /\ write_attempts <= 1
    /\ (wpc = "raised" => conn_attempts = 1 /\ errors # {})
    /\ (wpc = "raised" /\ pc \notin {"sink", "read"} =>
          /\ pc = "raised" /\ failed_stage = "write"
          /\ "Data pipeline finished." \notin output)
    /\ (failed_stage = "write" => wpc = "raised")

\* a run has ended raised after its one to_sql attempt failed
C7_Witness ==
    /\ pc = "raised" /\ failed_stage = "write"
    /\ conn_attempts = 1 /\ write_attempts = 1

NoDuplicates(s) == \A i, j \in 1..Len(s) : s[i] = s[j] => i = j

\* the name at position i is the cleaned name with the smallest suffix _k,
\* k >= 1, that no earlier position emitted
C8_SmallestSuffix(i) ==
    LET cleaned == CleanName(original_columns[i])
        emitted == {new_columns[j] : j \in 1..(i - 1)}
    IN  \E k \in 1..i :
          /\ new_columns[i] = Suffixed(cleaned, k)
          /\ new_columns[i] \notin emitted
          /\ \A m \in 1..(k - 1) : Suffixed(cleaned, m) \in emitted

\* C8 as stated: the loop emits one name per header and no name twice; the
\* first occurrence of a cleaned name is kept unsuffixed, and each later
\* occurrence gets the smallest suffix not already emitted.
C8_FirstOccurrenceUnsuffixed ==
    /\ Len(new_columns) = col_idx
    /\ NoDuplicates(new_columns)
    /\ \A i \in 1..col_idx :
          IF \A j \in 1..(i - 1) :
                CleanName(original_columns[j]) # CleanName(original_columns[i])
          THEN new_columns[i] = CleanName(original_columns[i])
          ELSE C8_SmallestSuffix(i)

\* C8 as amended: the loop emits one name per header and no name twice; a
\* cleaned name that no earlier position emitted is kept unsuffixed, and a
\* cleaned name already emitted (as a cleaned or a suffixed name) gets the
\* smallest suffix not already emitted.
C8_UniqueNames ==
    /\ Len(new_columns) = col_idx
    /\ seen_columns = {new_columns[j] : j \in 1..Len(new_columns)}
    /\ NoDuplicates(new_columns)
    /\ \A i \in 1..col_idx :
          IF CleanName(original_columns[i]) \notin {new_columns[j] : j \in 1..(i - 1)}
          THEN new_columns[i] = CleanName(original_columns[i])
          ELSE C8_SmallestSuffix(i)

\* the loop has run on 'a', 'a', 'a_1'
C8_Witness ==
    /\ original_columns = << <<"a">>, <<"a">>, <<"a", "_", "1">> >>
    /\ col_idx = 3
    /\ new_columns = << <<"a">>, <<"a", "_", "1">>, <<"a", "_", "1", "_", "1">> >>

\* what one transaction adds: the parser applied to its amount, 0 without one
C9_AmountOf(tx) ==
    IF "amount" \in DOMAIN tx.d THEN parse_currency_amount(tx.d["amount"]) ELSE Zero

RECURSIVE C9_Sum(_)
C9_Sum(txs) ==
    IF txs = <<>> THEN Zero
    ELSE NumAdd(C9_Sum(SubSeq(txs, 1, Len(txs) - 1)), C9_AmountOf(txs[Len(txs)]))

\* C9: in every output row num_transactions is the length of the list
\* _parse_transactions returns for the source row and
\* total_transaction_amount is the sum of the parsed amounts of its
\* transactions (0 for one without an amount); an empty or unparseable
\* transactions field gives 0 and 0.0.
C9_Aggregates ==
    transformed_df.t = "frame" =>
        \A r \in 1..Len(transformed_df.rows) :
            LET cell == data_df.rows[r][4]
                txs == parse_transactions(cell)
                row == transformed_df.rows[r]
            IN  /\ txs.t = "list"
                /\ row.num_transactions = Len(txs.v)
                /\ row.total_transaction_amount = C9_Sum(txs.v)
                /\ (cell \in {TxNone, TxBroken, PyNaN} =>
                      row.num_transactions = 0 /\ row.total_transaction_amount = Zero)

\* a row of three transactions, one without an amount and one with a null
\* amount, has been transformed: 3 transactions, 50.25 in total
C9_Witness ==
    /\ transformed_df.t = "frame"
    /\ \E r \in 1..Len(transformed_df.rows) :
          /\ data_df.rows[r][4] = TxDefaults
          /\ transformed_df.rows[r].num_transactions = 3
          /\ transformed_df.rows[r].total_transaction_amount = Num(5025, 2)

\* the number a written amount denotes
C10_Denoted(w) ==
    IF w.decimals THEN Num(w.whole * 100 + w.cents, 2) ELSE Num(w.whole, 0)

\* C10: an amount written with its decimals in the European convention
\* (1.234,56) or the US convention (1,234.56), with or without a currency
\* symbol, parses to the number it denotes.
C10_ConventionInferred ==
    (written.kind = "written" /\ written.decimals /\ amount_out # Unset) =>
        amount_out = C10_Denoted(written)

(***************************************************************************)
(* C11                                                                     *)
(***************************************************************************)
\* a text of digits with at most one '.', and at least one digit
C11_CleanNumeric(s) ==
    /\ \A i \in 1..Len(s) : s[i] \in Digits \cup {"."}
    /\ Cardinality({i \in 1..Len(s) : s[i] = "."}) <= 1
    /\ \E i \in 1..Len(s) : s[i] \in Digits

\* the number a clean numeric text denotes: its digits read as one integer,
\* scaled by the number of places behind the '.'
C11_Denotes(s) ==
    LET places == IF \E i \in 1..Len(s) : s[i] = "."
                  THEN Len(s) - (CHOOSE i \in 1..Len(s) : s[i] = ".")
                  ELSE 0
    IN  Num(DigitsVal(SelectSeq(s, LAMBDA c : c # ".")), places)

\* what is left of a text after the parser's cleaning
C11_Cleaned(s) ==
    KeepChars(FixSeparators(RemoveChars(s, CurrencySymbols)), Digits \cup {"."})

\* C11: _parse_currency_amount returns the number an already-clean numeric
\* text (digits with at most one '.') denotes; it maps '€100,50' to 100.50,
\* '$50.25' to 50.25, '£200.00' to 200.00 and '¥5000' to 5000.0; and for an
\* input that is no text, or whose cleaned text has no digit or more than
\* one '.', it returns 0.0 (it always returns a number, it never raises).
C11_FixedPointsAndFallback ==
    amount_out # Unset =>
        /\ amount_out \in [m : Nat, e : Nat]
        /\ amount_arg.t # "str" => amount_out = Zero
        /\ amount_arg.t = "str" =>
              /\ C11_CleanNumeric(amount_arg.s) => amount_out = C11_Denotes(amount_arg.s)
              /\ (\/ \A i \in 1..Len(C11_Cleaned(amount_arg.s)) :
                        C11_Cleaned(amount_arg.s)[i] \notin Digits
                  \/ Count(C11_Cleaned(amount_arg.s), ".") > 1) => amount_out = Zero
              /\ amount_arg.s = <<"€", "1", "0", "0", ",", "5", "0">>
                    => amount_out = Num(10050, 2)
              /\ amount_arg.s = <<"$", "5", "0", ".", "2", "5">>
                    => amount_out = Num(5025, 2)
              /\ amount_arg.s = <<"£", "2", "0", "0", ".", "0", "0">>
                    => amount_out = Num(200, 0)
              /\ amount_arg.s = <<"¥", "5", "0", "0", "0">>
                    => amount_out = Num(5000, 0)

C11_Witness ==
    /\ written = [kind |-> "documented"]
    /\ amount_arg = PyStr(<<"€", "1", "0", "0", ",", "5", "0">>)
    /\ amount_out = Num(10050, 2)

(***************************************************************************)
(* C12                                                                     *)
(***************************************************************************)
\* a connection string that names a local file-backed database
C12_FileBacked(cs) == cs.t = "str" /\ Len(cs.s) >= 1 /\ cs.s[1] = "sqlite:///"

\* a discrete setting, or its default when it is not set
C12_Setting(key, default) == IF environ[key] = Unset THEN default ELSE environ[key].s

\* C12: DB_CONNECTION_STRING is the explicit connection URL whenever a
\* non-empty one is configured; otherwise it is built from the discrete
\* host/port/user/password/database-name settings; and when nothing at all
\* is configured it names a local file-backed database.
C12_ConnectionStringResolution ==
    connection_string # Unset =>
        /\ environ.DB_URL \notin {Unset, PyStr(<<>>)} => connection_string = environ.DB_URL
        /\ (environ.DB_URL \in {Unset, PyStr(<<>>)}
            /\ \E k \in DOMAIN environ : environ[k] # Unset) =>
              connection_string =
                  PyStr(<<"postgresql://">> \o C12_Setting("DB_USER", <<"user">>)
                        \o <<":">> \o C12_Setting("DB_PASSWORD", <<"password">>)
                        \o <<"@">> \o C12_Setting("DB_HOST", <<"localhost">>)
                        \o <<":">> \o C12_Setting("DB_PORT", <<"5432">>)
                        \o <<"/">> \o C12_Setting("DB_NAME", <<"bynd_db">>))
        /\ (\A k \in DOMAIN environ : environ[k] = Unset) => C12_FileBacked(connection_string)

(***************************************************************************)
(* C13                                                                     *)
(***************************************************************************)
\* the argument is text whose literal is a mapping
C13_Mapping(arg) == arg.t = "str" /\ arg.lit.t = "dict"

\* parsing fails: the text is no literal, the literal is no mapping, or
\* its 'address' entry is no mapping
C13_ParseFails(arg) ==
    /\ arg.t = "str"
    /\ \/ arg.lit.t # "dict"
       \/ /\ "address" \in DOMAIN arg.lit.d
          /\ arg.lit.d["address"].t # "dict"

\* a field of the record: the entry of the inner mapping, '' when absent
C13_Field(inner, key) == IF key \in DOMAIN inner.d THEN inner.d[key] ELSE PyStr(<<>>)

\* C13: _parse_address returns (a) the record of street/city/post_code/
\* country taken from the keys streeet/city/'post code'/country, '' for an
\* absent key, when the text parses to a mapping that has key 'address';
\* (b) an empty record when the input is no string or the parsed mapping
\* lacks key 'address'; (c) the unparseable sentinel, which differs from an
\* empty record, only when parsing fails.
C13_ResultClasses ==
    address_out # Unset =>
        /\ (C13_Mapping(address_arg) /\ ~C13_ParseFails(address_arg)
            /\ "address" \in DOMAIN address_arg.lit.d) =>
              LET inner == address_arg.lit.d["address"]
                  post == C13_Field(inner, "post code")
              IN  address_out =
                    PyDict( "street" :> C13_Field(inner, "streeet")
                         @@ "city" :> C13_Field(inner, "city")
                         @@ "post_code" :> (IF post.t = "int"
                                            THEN PyStr(IntToStr(post.n)) ELSE post)
                         @@ "country" :> C13_Field(inner, "country"))
        /\ (address_arg.t # "str"
            \/ (C13_Mapping(address_arg) /\ "address" \notin DOMAIN address_arg.lit.d))
              => address_out = EmptyDict
        /\ C13_ParseFails(address_arg) => address_out = PyNone
        /\ address_out = PyNone => C13_ParseFails(address_arg)
        /\ PyNone # EmptyDict

(***************************************************************************)
(* C14                                                                     *)
(***************************************************************************)
\* the table exists and every row of it is a row of rows, no more of them
\* than rows has
C14_OnlyRowsOf(rows) ==
    /\ table.t = "table"
    /\ Len(TableRows(table)) <= Len(rows)
    /\ \A i \in 1..Len(TableRows(table)) :
          \E j \in 1..Len(rows) : TableRows(table)[i] = rows[j]

\* C14: in write_data(if_exists='replace') the drop of an existing table is
\* committed before the first row of the new data is inserted, so that
\* during and after the call, also when the populate step fails, the table
\* holds only rows of the prior contents, or does not exist, or holds only
\* rows of the new data set, never rows of both.
C14_NoMixingUnderReplace ==
    (if_exists = "replace" /\ wpc # "idle") =>
        /\ wpc = "to_sql" => table = Absent
        /\ wpc \in {"get_engine", "check"} => table = prior
        /\ \/ table = Absent
           \/ table = prior
           \/ C14_OnlyRowsOf(w_df.rows)
        /\ (\A j \in 1..Len(w_df.rows) : w_df.rows[j] # OldRow) =>
              \/ table = prior
              \/ \A i \in 1..Len(TableRows(table)) : TableRows(table)[i] # OldRow

\* the populate step has failed after the drop of a table that held rows
C14_Witness ==
    /\ if_exists = "replace" /\ wpc = "raised" /\ write_attempts = 1
    /\ prior = Table(<<OldRow>>) /\ Len(w_df.rows) = 2
    /\ table = Absent

====
